---- MODULE Spec2Model ----
(***************************************************************************)
(* The GitHub import iterator of bridge/github/iterator.go: four nested    *)
(* "advance, then read" axes (issues, timeline items, issue edits, comment *)
(* edits) over a remote that serves cursor-paginated pages.                *)
(***************************************************************************)
EXTENDS Integers, Sequences, FiniteSets, TLC

\* ------------------------------------------------------------------ bounds
MaxIssues == 3
MaxItems == 3
MaxEdits == 3
MaxCap == 3
NumErrors == 2

\* ------------------------------------------------------- small utilities
Min(a, b) == IF a < b THEN a ELSE b
Max(a, b) == IF a > b THEN a ELSE b
Reverse(s) == [x \in 1..Len(s) |-> s[Len(s) + 1 - x]]

\* ----------------------------------------------------------------- values
\* A cursor is an opaque token; the model keeps its provenance (which issue,
\* which timeline item, which position) so that scoping can be stated.
Cur(k, n, j, p) == [k |-> k, issue |-> n, item |-> j, pos |-> p]
NilCursor == Cur("nil", 0, 0, 0)
EmptyCursor == Cur("empty", 0, 0, 0)
UnsetCursor == Cur("unset", 0, 0, 0)
IssueCursor(n) == Cur("issue", n, 0, n)
ItemCursor(n, j) == Cur("item", n, j, j)
EditCursor(n, j, p) == Cur("edit", n, j, p)

DiffKinds == {"nil", "empty", "text"}
Owner == "owner"
Project == "project"
Since == "since"

\* error values: 0 is nil, 1..NumErrors are transport errors, ErrCanceled is
\* the error of a query run under a cancelled context
ErrCanceled == NumErrors + 1
Errors == 1..NumErrors

pageInfo(endc, hasNext, startc, hasPrev) ==
    [EndCursor |-> endc, HasNextPage |-> hasNext,
     StartCursor |-> startc, HasPreviousPage |-> hasPrev]
ZeroPageInfo == pageInfo(EmptyCursor, FALSE, EmptyCursor, FALSE)
ZeroEdits == [Nodes |-> <<>>, PageInfo |-> ZeroPageInfo, raw |-> <<>>, nrev |-> 0]
ZeroQuery == [Nodes |-> <<>>, PageInfo |-> ZeroPageInfo]

\* userContentEdit: parent <<issue, item>> (item 0: the issue itself), its
\* position in the remote's newest-first list, its creation time and its diff
userContentEdit(n, j, p, t, d) ==
    [issue |-> n, item |-> j, pos |-> p, CreatedAt |-> t, Diff |-> d]

\* ------------------------------------------------------------- the remote
VARIABLES remote

\* position selected by an `after` cursor / a `before` cursor
AfterPos(c) == IF c.k \in {"nil", "empty"} THEN 0 ELSE c.pos
BeforePos(c, len) == IF c.k \in {"nil", "empty"} THEN len ELSE Min(len, c.pos - 1)

\* The remote pages an edit list by creation time: the list is newest first
\* and a `before` cursor selects the edits made after the edit it denotes.
\* All lists share one clock: the p-th newest edit of a list was made at
\* time -p, so a cursor means the same position on whatever list it is sent to.
EditTime(p) == 0 - p

\* userContentEdits(last: $last, before: $before) of parent <<n, j>>, whose
\* edit list is hist (newest first); raw keeps the page as it was served and
\* nrev counts its reversals
EditsPage(n, j, hist, last, before) ==
    LET e == BeforePos(before, Len(hist))
        s == Max(1, e - last + 1)
        nodes == [x \in 1..(e - s + 1) |->
                    userContentEdit(n, j, s + x - 1, EditTime(s + x - 1),
                                    hist[s + x - 1])]
    IN  IF e < s THEN [Nodes |-> <<>>,
                       PageInfo |-> pageInfo(EmptyCursor, e < Len(hist), EmptyCursor, FALSE),
                       raw |-> <<>>, nrev |-> 0]
        ELSE [Nodes |-> nodes,
              PageInfo |-> pageInfo(EditCursor(n, j, e), e < Len(hist),
                                    EditCursor(n, j, s), s > 1),
              raw |-> nodes, nrev |-> 0]

\* one timeline item of issue n at position p
TimelineNode(n, p, item, last, before) ==
    [Typename |-> IF item.comment THEN "IssueComment" ELSE "Other",
     issue |-> n, item |-> p,
     UserContentEdits |-> IF item.comment
                          THEN EditsPage(n, p, item.edits, last, before)
                          ELSE ZeroEdits]

\* timelineItems(first: $first, after: $after) of issue n
TimelinePage(n, items, first, after, last, before) ==
    LET s == AfterPos(after) + 1
        e == Min(Len(items), s + first - 1)
    IN  IF e < s THEN [Edges |-> <<>>, PageInfo |-> ZeroPageInfo]
        ELSE [Edges |-> [x \in 1..(e - s + 1) |->
                           [Cursor |-> ItemCursor(n, s + x - 1),
                            Node |-> TimelineNode(n, s + x - 1, items[s + x - 1], last, before)]],
              PageInfo |-> pageInfo(ItemCursor(n, e), e < Len(items),
                                    ItemCursor(n, s), s > 1)]

\* issues(first: $first, after: $after): the positions served and the page info
IssueRange(first, after) ==
    LET s == AfterPos(after) + 1
        e == Min(Len(remote.issues), s + first - 1)
    IN  [s |-> s, e |-> e]
IssuesPageInfo(first, after) ==
    LET r == IssueRange(first, after)
    IN  IF r.e < r.s THEN ZeroPageInfo
        ELSE pageInfo(IssueCursor(r.e), r.e < Len(remote.issues), IssueCursor(r.s), r.s > 1)

\* the response to issueTimelineQuery
TimelineQueryResult(v) ==
    LET r == IssueRange(v.issueFirst, v.issueAfter)
    IN  [Nodes |-> [x \in 1..(r.e - r.s + 1) |->
                      LET n == r.s + x - 1
                      IN  [id |-> n,
                           UserContentEdits |-> EditsPage(n, 0, remote.issues[n].edits,
                                                          v.issueEditLast, v.issueEditBefore),
                           TimelineItems |-> TimelinePage(n, remote.issues[n].items,
                                                          v.timelineFirst, v.timelineAfter,
                                                          v.commentEditLast, v.commentEditBefore)]],
         PageInfo |-> IssuesPageInfo(v.issueFirst, v.issueAfter)]

\* the response to issueEditQuery
IssueEditQueryResult(v) ==
    LET r == IssueRange(v.issueFirst, v.issueAfter)
    IN  [Nodes |-> [x \in 1..(r.e - r.s + 1) |->
                      LET n == r.s + x - 1
                      IN  [id |-> n,
                           UserContentEdits |-> EditsPage(n, 0, remote.issues[n].edits,
                                                          v.issueEditLast, v.issueEditBefore)]],
         PageInfo |-> IssuesPageInfo(v.issueFirst, v.issueAfter)]

\* the response to commentEditQuery
CommentEditQueryResult(v) ==
    LET r == IssueRange(v.issueFirst, v.issueAfter)
    IN  [Nodes |-> [x \in 1..(r.e - r.s + 1) |->
                      LET n == r.s + x - 1
                          t == TimelinePage(n, remote.issues[n].items, v.timelineFirst,
                                            v.timelineAfter, v.commentEditLast,
                                            v.commentEditBefore)
                      IN  [id |-> n,
                           Timeline |-> [Nodes |-> [y \in 1..Len(t.Edges) |-> t.Edges[y].Node]]]],
         PageInfo |-> IssuesPageInfo(v.issueFirst, v.issueAfter)]

\* ------------------------------------------------------ the iterator state
VARIABLES capacity, cancelled, err, timeline, issueEdit, commentEdit,
          panicked, last, firstErr, issueLog, issueEditLog, commentEditLog

vars == <<remote, capacity, cancelled, err, timeline, issueEdit, commentEdit,
          panicked, last, firstErr, issueLog, issueEditLog, commentEditLog>>

\* the iterator as one value, with the bookkeeping of the call in progress:
\* the requests it has sent, whether it panicked, and its return value
Iter == [err |-> err, timeline |-> timeline, issueEdit |-> issueEdit,
         commentEdit |-> commentEdit, reqs |-> <<>>, panic |-> FALSE, ret |-> FALSE]

Return(s, b) == [s EXCEPT !.ret = b]
Panic(s) == [s EXCEPT !.panic = TRUE, !.ret = FALSE]

\* the outcome of the next gc.Query of the call: 0 when it succeeds, else
\* the error.  The failAt-th query of the call fails with error e; a query
\* under a cancelled context fails with the context's error.
QueryOutcome(s, failAt, e) ==
    IF cancelled THEN ErrCanceled
    ELSE IF Len(s.reqs) + 1 = failAt THEN e ELSE 0

Sent(s, q, v) == [s EXCEPT !.reqs = Append(@, [q |-> q, v |-> v])]

initTimelineQueryVariables(cap) ==
    [owner |-> Owner, name |-> Project, issueFirst |-> 1, issueAfter |-> NilCursor,
     issueSince |-> Since, timelineFirst |-> cap, timelineAfter |-> NilCursor,
     issueEditLast |-> cap, issueEditBefore |-> NilCursor,
     commentEditLast |-> cap, commentEditBefore |-> NilCursor]

initIssueEditQueryVariables(s) ==
    [s EXCEPT !.issueEdit.variables =
        [owner |-> @.owner, name |-> @.name, issueFirst |-> 1,
         issueAfter |-> s.timeline.variables.issueAfter, issueSince |-> Since,
         issueEditLast |-> capacity, issueEditBefore |-> NilCursor]]

\* initCommentEditQueryVariables asking, at line 130, for a page of timeline
\* items as wide as the capacity
initCommentEditQueryVariables_Wide(s) ==
    [s EXCEPT !.commentEdit.variables =
        [owner |-> @.owner, name |-> @.name, issueFirst |-> 1,
         issueAfter |-> s.timeline.variables.issueAfter, issueSince |-> Since,
         timelineFirst |-> capacity, timelineAfter |-> NilCursor,
         commentEditLast |-> capacity, commentEditBefore |-> NilCursor]]

initCommentEditQueryVariables(s) ==
    [s EXCEPT !.commentEdit.variables =
        [owner |-> @.owner, name |-> @.name, issueFirst |-> 1,
         issueAfter |-> s.timeline.variables.issueAfter, issueSince |-> Since,
         timelineFirst |-> 1, timelineAfter |-> NilCursor,
         commentEditLast |-> capacity, commentEditBefore |-> NilCursor]]

\* reverseEdits leaving the slice as it is
reverseEdits_Noop(edits) == [edits EXCEPT !.nrev = @ + 1]

reverseEdits(edits) == [edits EXCEPT !.Nodes = Reverse(@), !.nrev = @ + 1]

reverseTimelineEditNodes(s) ==
    LET node == s.timeline.query.Nodes[1]
        edges == node.TimelineItems.Edges
    IN  [s EXCEPT !.timeline.query.Nodes[1].UserContentEdits = reverseEdits(@),
                  !.timeline.query.Nodes[1].TimelineItems.Edges =
                      [x \in 1..Len(edges) |->
                          IF edges[x].Node.Typename = "IssueComment" /\ Len(edges) # 0
                          THEN [edges[x] EXCEPT !.Node.UserContentEdits = reverseEdits(@)]
                          ELSE edges[x]]]

\* queryIssue without line 158: a failed query is not recorded in i.err
queryIssue_ErrLost(s, failAt, e) ==
    LET o == QueryOutcome(s, failAt, e)
        s1 == Sent(s, "timeline", s.timeline.variables)
    IN  IF o # 0 THEN Return(s1, FALSE)
        ELSE LET s2 == [s1 EXCEPT !.timeline.query = TimelineQueryResult(s.timeline.variables)]
             IN  IF Len(s2.timeline.query.Nodes) = 0 THEN Return(s2, FALSE)
                 ELSE Return(reverseTimelineEditNodes(s2), TRUE)

queryIssue(s, failAt, e) ==
    LET o == QueryOutcome(s, failAt, e)
        s1 == Sent(s, "timeline", s.timeline.variables)
    IN  IF o # 0 THEN Return([s1 EXCEPT !.err = o], FALSE)
        ELSE LET s2 == [s1 EXCEPT !.timeline.query = TimelineQueryResult(s.timeline.variables)]
             IN  IF Len(s2.timeline.query.Nodes) = 0 THEN Return(s2, FALSE)
                 ELSE Return(reverseTimelineEditNodes(s2), TRUE)

\* NextIssue that, at line 189, forgets its cursor when no further page exists
NextIssueOp_Restart(s, failAt, e) ==
    IF s.err # 0 THEN Return(s, FALSE)
    ELSE IF s.timeline.variables.issueAfter = NilCursor
    THEN LET r == queryIssue(s, failAt, e)
         IN  [r EXCEPT !.timeline.variables.issueAfter = r.timeline.query.PageInfo.EndCursor]
    ELSE LET issues == s.timeline.query
         IN  IF ~issues.PageInfo.HasNextPage
             THEN Return([s EXCEPT !.timeline.variables.issueAfter = NilCursor], FALSE)
             ELSE IF Len(issues.Nodes) = 0 THEN Panic(s)
             ELSE LET s1 == [s EXCEPT !.timeline.variables.timelineAfter = NilCursor,
                                      !.timeline.index = -1,
                                      !.timeline.lastEndCursor =
                                          issues.Nodes[1].TimelineItems.PageInfo.EndCursor]
                      r == queryIssue(s1, failAt, e)
                  IN  [r EXCEPT !.timeline.variables.issueAfter = issues.PageInfo.EndCursor]

\* NextIssue without line 194: the timeline index is kept across issues
NextIssueOp_NoTimelineReset(s, failAt, e) ==
    IF s.err # 0 THEN Return(s, FALSE)
    ELSE IF s.timeline.variables.issueAfter = NilCursor
    THEN LET r == queryIssue(s, failAt, e)
         IN  [r EXCEPT !.timeline.variables.issueAfter = r.timeline.query.PageInfo.EndCursor]
    ELSE LET issues == s.timeline.query
         IN  IF ~issues.PageInfo.HasNextPage THEN Return(s, FALSE)
             ELSE IF Len(issues.Nodes) = 0 THEN Panic(s)
             ELSE LET s1 == [s EXCEPT !.timeline.variables.timelineAfter = NilCursor,
                                      !.timeline.lastEndCursor =
                                          issues.Nodes[1].TimelineItems.PageInfo.EndCursor]
                      r == queryIssue(s1, failAt, e)
                  IN  [r EXCEPT !.timeline.variables.issueAfter = issues.PageInfo.EndCursor]

\* NextIssue without line 183: the first branch leaves issueAfter as it was
NextIssueOp_NilKept(s, failAt, e) ==
    IF s.err # 0 THEN Return(s, FALSE)
    ELSE IF s.timeline.variables.issueAfter = NilCursor
    THEN queryIssue(s, failAt, e)
    ELSE LET issues == s.timeline.query
         IN  IF ~issues.PageInfo.HasNextPage THEN Return(s, FALSE)
             ELSE IF Len(issues.Nodes) = 0 THEN Panic(s)
             ELSE LET s1 == [s EXCEPT !.timeline.variables.timelineAfter = NilCursor,
                                      !.timeline.index = -1,
                                      !.timeline.lastEndCursor =
                                          issues.Nodes[1].TimelineItems.PageInfo.EndCursor]
                      r == queryIssue(s1, failAt, e)
                  IN  [r EXCEPT !.timeline.variables.issueAfter = issues.PageInfo.EndCursor]

NextIssueOp(s, failAt, e) ==
    IF s.err # 0 THEN Return(s, FALSE)
    ELSE IF s.timeline.variables.issueAfter = NilCursor
    THEN LET r == queryIssue(s, failAt, e)
         IN  [r EXCEPT !.timeline.variables.issueAfter = r.timeline.query.PageInfo.EndCursor]
    ELSE LET issues == s.timeline.query
         IN  IF ~issues.PageInfo.HasNextPage THEN Return(s, FALSE)
             ELSE IF Len(issues.Nodes) = 0 THEN Panic(s)
             ELSE LET s1 == [s EXCEPT !.timeline.variables.timelineAfter = NilCursor,
                                      !.timeline.index = -1,
                                      !.timeline.lastEndCursor =
                                          issues.Nodes[1].TimelineItems.PageInfo.EndCursor]
                      r == queryIssue(s1, failAt, e)
                  IN  [r EXCEPT !.timeline.variables.issueAfter = issues.PageInfo.EndCursor]

\* NextTimelineItem without the test of lines 226-228 for an empty page
NextTimelineItemOp_NoEmptyTest(s, failAt, e) ==
    IF s.err # 0 THEN Return(s, FALSE)
    ELSE IF cancelled THEN Return(s, FALSE)
    ELSE IF Len(s.timeline.query.Nodes) = 0 THEN Panic(s)
    ELSE LET timelineItems == s.timeline.query.Nodes[1].TimelineItems
         IN  IF s.timeline.index < Len(timelineItems.Edges) - 1
             THEN Return([s EXCEPT !.timeline.index = @ + 1], TRUE)
             ELSE IF ~timelineItems.PageInfo.HasNextPage THEN Return(s, FALSE)
             ELSE LET s1 == [s EXCEPT !.timeline.lastEndCursor = timelineItems.PageInfo.EndCursor,
                                      !.timeline.variables.timelineAfter =
                                          timelineItems.PageInfo.EndCursor]
                      o == QueryOutcome(s1, failAt, e)
                      s2 == Sent(s1, "timeline", s1.timeline.variables)
                  IN  IF o # 0 THEN Return([s2 EXCEPT !.err = o], FALSE)
                      ELSE LET s3 == [s2 EXCEPT !.timeline.query =
                                                    TimelineQueryResult(s1.timeline.variables)]
                           IN  IF Len(s3.timeline.query.Nodes) = 0 THEN Panic(s3)
                               ELSE IF Len(s3.timeline.query.Nodes[1].TimelineItems.Edges) = 0
                               THEN Return(s3, FALSE)
                               ELSE Return([reverseTimelineEditNodes(s3)
                                               EXCEPT !.timeline.index = 0], TRUE)

\* NextTimelineItem without the context test of lines 220-222
NextTimelineItemOp_NoCtxTest(s, failAt, e) ==
    IF s.err # 0 THEN Return(s, FALSE)
    ELSE IF Len(s.timeline.query.Nodes) = 0 THEN Panic(s)
    ELSE LET timelineItems == s.timeline.query.Nodes[1].TimelineItems
         IN  IF Len(timelineItems.Edges) = 0 THEN Return(s, FALSE)
             ELSE IF s.timeline.index < Len(timelineItems.Edges) - 1
             THEN Return([s EXCEPT !.timeline.index = @ + 1], TRUE)
             ELSE IF ~timelineItems.PageInfo.HasNextPage THEN Return(s, FALSE)
             ELSE LET s1 == [s EXCEPT !.timeline.lastEndCursor = timelineItems.PageInfo.EndCursor,
                                      !.timeline.variables.timelineAfter =
                                          timelineItems.PageInfo.EndCursor]
                      o == QueryOutcome(s1, failAt, e)
                      s2 == Sent(s1, "timeline", s1.timeline.variables)
                  IN  IF o # 0 THEN Return([s2 EXCEPT !.err = o], FALSE)
                      ELSE LET s3 == [s2 EXCEPT !.timeline.query =
                                                    TimelineQueryResult(s1.timeline.variables)]
                           IN  IF Len(s3.timeline.query.Nodes) = 0 THEN Panic(s3)
                               ELSE IF Len(s3.timeline.query.Nodes[1].TimelineItems.Edges) = 0
                               THEN Return(s3, FALSE)
                               ELSE Return([reverseTimelineEditNodes(s3)
                                               EXCEPT !.timeline.index = 0], TRUE)

\* NextTimelineItem testing index < len(edges) at line 230
NextTimelineItemOp_OffByOne(s, failAt, e) ==
    IF s.err # 0 THEN Return(s, FALSE)
    ELSE IF cancelled THEN Return(s, FALSE)
    ELSE IF Len(s.timeline.query.Nodes) = 0 THEN Panic(s)
    ELSE LET timelineItems == s.timeline.query.Nodes[1].TimelineItems
         IN  IF Len(timelineItems.Edges) = 0 THEN Return(s, FALSE)
             ELSE IF s.timeline.index < Len(timelineItems.Edges)
             THEN Return([s EXCEPT !.timeline.index = @ + 1], TRUE)
             ELSE IF ~timelineItems.PageInfo.HasNextPage THEN Return(s, FALSE)
             ELSE LET s1 == [s EXCEPT !.timeline.lastEndCursor = timelineItems.PageInfo.EndCursor,
                                      !.timeline.variables.timelineAfter =
                                          timelineItems.PageInfo.EndCursor]
                      o == QueryOutcome(s1, failAt, e)
                      s2 == Sent(s1, "timeline", s1.timeline.variables)
                  IN  IF o # 0 THEN Return([s2 EXCEPT !.err = o], FALSE)
                      ELSE LET s3 == [s2 EXCEPT !.timeline.query =
                                                    TimelineQueryResult(s1.timeline.variables)]
                           IN  IF Len(s3.timeline.query.Nodes) = 0 THEN Panic(s3)
                               ELSE IF Len(s3.timeline.query.Nodes[1].TimelineItems.Edges) = 0
                               THEN Return(s3, FALSE)
                               ELSE Return([reverseTimelineEditNodes(s3)
                                               EXCEPT !.timeline.index = 0], TRUE)

NextTimelineItemOp(s, failAt, e) ==
    IF s.err # 0 THEN Return(s, FALSE)
    ELSE IF cancelled THEN Return(s, FALSE)
    ELSE IF Len(s.timeline.query.Nodes) = 0 THEN Panic(s)
    ELSE LET timelineItems == s.timeline.query.Nodes[1].TimelineItems
         IN  IF Len(timelineItems.Edges) = 0 THEN Return(s, FALSE)
             ELSE IF s.timeline.index < Len(timelineItems.Edges) - 1
             THEN Return([s EXCEPT !.timeline.index = @ + 1], TRUE)
             ELSE IF ~timelineItems.PageInfo.HasNextPage THEN Return(s, FALSE)
             ELSE LET s1 == [s EXCEPT !.timeline.lastEndCursor = timelineItems.PageInfo.EndCursor,
                                      !.timeline.variables.timelineAfter =
                                          timelineItems.PageInfo.EndCursor]
                      o == QueryOutcome(s1, failAt, e)
                      s2 == Sent(s1, "timeline", s1.timeline.variables)
                  IN  IF o # 0 THEN Return([s2 EXCEPT !.err = o], FALSE)
                      ELSE LET s3 == [s2 EXCEPT !.timeline.query =
                                                    TimelineQueryResult(s1.timeline.variables)]
                           IN  IF Len(s3.timeline.query.Nodes) = 0 THEN Panic(s3)
                               ELSE IF Len(s3.timeline.query.Nodes[1].TimelineItems.Edges) = 0
                               THEN Return(s3, FALSE)
                               ELSE Return([reverseTimelineEditNodes(s3)
                                               EXCEPT !.timeline.index = 0], TRUE)


\* ------------------------------------------------------------ issue edits
IssueEditInRange(s) ==
    IF s.timeline.issueEdit.index = -2
    THEN /\ Len(s.issueEdit.query.Nodes) > 0
         /\ s.issueEdit.index >= 0
         /\ s.issueEdit.index < Len(s.issueEdit.query.Nodes[1].UserContentEdits.Nodes)
    ELSE /\ Len(s.timeline.query.Nodes) > 0
         /\ s.timeline.issueEdit.index >= 0
         /\ s.timeline.issueEdit.index < Len(s.timeline.query.Nodes[1].UserContentEdits.Nodes)

IssueEditValue(s) ==
    IF s.timeline.issueEdit.index = -2
    THEN s.issueEdit.query.Nodes[1].UserContentEdits.Nodes[s.issueEdit.index + 1]
    ELSE s.timeline.query.Nodes[1].UserContentEdits.Nodes[s.timeline.issueEdit.index + 1]

RECURSIVE NextIssueEditOp(_, _, _)
RECURSIVE queryIssueEdit(_, _, _)
RECURSIVE nextValidIssueEdit(_, _, _)

\* nextValidIssueEdit testing line 297 for a nil diff only
nextValidIssueEdit_NilOnly(s, failAt, e) ==
    IF ~IssueEditInRange(s) THEN Panic(s)
    ELSE IF IssueEditValue(s).Diff = "nil"
    THEN NextIssueEditOp(s, failAt, e)
    ELSE Return(s, TRUE)

nextValidIssueEdit(s, failAt, e) ==
    IF ~IssueEditInRange(s) THEN Panic(s)
    ELSE IF IssueEditValue(s).Diff = "nil" \/ IssueEditValue(s).Diff = "empty"
    THEN NextIssueEditOp(s, failAt, e)
    ELSE Return(s, TRUE)

\* queryIssueEdit with line 275 in force: a failed query resets the axis
queryIssueEdit_ResetOnFailure(s, failAt, e) ==
    LET o == QueryOutcome(s, failAt, e)
        s1 == Sent(s, "issueEdit", s.issueEdit.variables)
    IN  IF o # 0 THEN Return([s1 EXCEPT !.err = o, !.timeline.issueEdit.index = -1], FALSE)
        ELSE LET s2 == [s1 EXCEPT !.issueEdit.query = IssueEditQueryResult(s.issueEdit.variables)]
             IN  IF Len(s2.issueEdit.query.Nodes) = 0 THEN Panic(s2)
                 ELSE LET s3 == [s2 EXCEPT !.issueEdit.query.Nodes[1].UserContentEdits =
                                               reverseEdits(@)]
                      IN  IF Len(s3.issueEdit.query.Nodes[1].UserContentEdits.Nodes) = 0
                          THEN Return([s3 EXCEPT !.timeline.issueEdit.index = -1], FALSE)
                          ELSE nextValidIssueEdit([s3 EXCEPT !.issueEdit.index = 0,
                                                             !.timeline.issueEdit.index = -2],
                                                  failAt, e)

queryIssueEdit(s, failAt, e) ==
    LET o == QueryOutcome(s, failAt, e)
        s1 == Sent(s, "issueEdit", s.issueEdit.variables)
    IN  IF o # 0 THEN Return([s1 EXCEPT !.err = o], FALSE)
        ELSE LET s2 == [s1 EXCEPT !.issueEdit.query = IssueEditQueryResult(s.issueEdit.variables)]
             IN  IF Len(s2.issueEdit.query.Nodes) = 0 THEN Panic(s2)
                 ELSE LET s3 == [s2 EXCEPT !.issueEdit.query.Nodes[1].UserContentEdits =
                                               reverseEdits(@)]
                      IN  IF Len(s3.issueEdit.query.Nodes[1].UserContentEdits.Nodes) = 0
                          THEN Return([s3 EXCEPT !.timeline.issueEdit.index = -1], FALSE)
                          ELSE nextValidIssueEdit([s3 EXCEPT !.issueEdit.index = 0,
                                                             !.timeline.issueEdit.index = -2],
                                                  failAt, e)

\* NextIssueEdit without lines 324-325 and 356: an exhausted axis keeps its
\* position instead of going back to NotStarted
NextIssueEditOp_NoReset(s, failAt, e) ==
    IF s.err # 0 THEN Return(s, FALSE)
    ELSE IF cancelled THEN Return(s, FALSE)
    ELSE IF s.timeline.issueEdit.index = -2
    THEN IF Len(s.issueEdit.query.Nodes) = 0 THEN Panic(s)
         ELSE LET issueEdits == s.issueEdit.query.Nodes[1].UserContentEdits
              IN  IF s.issueEdit.index < Len(issueEdits.Nodes) - 1
                  THEN nextValidIssueEdit([s EXCEPT !.issueEdit.index = @ + 1], failAt, e)
                  ELSE IF ~issueEdits.PageInfo.HasPreviousPage
                  THEN Return(s, FALSE)
                  ELSE queryIssueEdit([s EXCEPT !.issueEdit.variables.issueEditBefore =
                                                    issueEdits.PageInfo.StartCursor],
                                      failAt, e)
    ELSE IF Len(s.timeline.query.Nodes) = 0 THEN Panic(s)
    ELSE LET issueEdits == s.timeline.query.Nodes[1].UserContentEdits
         IN  IF Len(issueEdits.Nodes) = 0 THEN Return(s, FALSE)
             ELSE IF s.timeline.issueEdit.index < Len(issueEdits.Nodes) - 1
             THEN nextValidIssueEdit([s EXCEPT !.timeline.issueEdit.index = @ + 1], failAt, e)
             ELSE IF ~issueEdits.PageInfo.HasPreviousPage
             THEN Return(s, FALSE)
             ELSE queryIssueEdit([initIssueEditQueryVariables(s)
                                     EXCEPT !.issueEdit.variables.issueEditBefore =
                                                issueEdits.PageInfo.StartCursor],
                                 failAt, e)

\* NextIssueEdit anchoring the first fallback query, at line 362, at the end
\* cursor of the embedded list
NextIssueEditOp_EndCursor(s, failAt, e) ==
    IF s.err # 0 THEN Return(s, FALSE)
    ELSE IF cancelled THEN Return(s, FALSE)
    ELSE IF s.timeline.issueEdit.index = -2
    THEN IF Len(s.issueEdit.query.Nodes) = 0 THEN Panic(s)
         ELSE LET issueEdits == s.issueEdit.query.Nodes[1].UserContentEdits
              IN  IF s.issueEdit.index < Len(issueEdits.Nodes) - 1
                  THEN nextValidIssueEdit([s EXCEPT !.issueEdit.index = @ + 1], failAt, e)
                  ELSE IF ~issueEdits.PageInfo.HasPreviousPage
                  THEN Return([s EXCEPT !.timeline.issueEdit.index = -1,
                                        !.issueEdit.index = -1], FALSE)
                  ELSE queryIssueEdit([s EXCEPT !.issueEdit.variables.issueEditBefore =
                                                    issueEdits.PageInfo.StartCursor],
                                      failAt, e)
    ELSE IF Len(s.timeline.query.Nodes) = 0 THEN Panic(s)
    ELSE LET issueEdits == s.timeline.query.Nodes[1].UserContentEdits
         IN  IF Len(issueEdits.Nodes) = 0 THEN Return(s, FALSE)
             ELSE IF s.timeline.issueEdit.index < Len(issueEdits.Nodes) - 1
             THEN nextValidIssueEdit([s EXCEPT !.timeline.issueEdit.index = @ + 1], failAt, e)
             ELSE IF ~issueEdits.PageInfo.HasPreviousPage
             THEN Return([s EXCEPT !.timeline.issueEdit.index = -1], FALSE)
             ELSE queryIssueEdit([initIssueEditQueryVariables(s)
                                     EXCEPT !.issueEdit.variables.issueEditBefore =
                                                issueEdits.PageInfo.EndCursor],
                                 failAt, e)

\* NextIssueEdit without line 325: the fallback index is kept at exhaustion
NextIssueEditOp_KeepFallbackIndex(s, failAt, e) ==
    IF s.err # 0 THEN Return(s, FALSE)
    ELSE IF cancelled THEN Return(s, FALSE)
    ELSE IF s.timeline.issueEdit.index = -2
    THEN IF Len(s.issueEdit.query.Nodes) = 0 THEN Panic(s)
         ELSE LET issueEdits == s.issueEdit.query.Nodes[1].UserContentEdits
              IN  IF s.issueEdit.index < Len(issueEdits.Nodes) - 1
                  THEN nextValidIssueEdit([s EXCEPT !.issueEdit.index = @ + 1], failAt, e)
                  ELSE IF ~issueEdits.PageInfo.HasPreviousPage
                  THEN Return([s EXCEPT !.timeline.issueEdit.index = -1], FALSE)
                  ELSE queryIssueEdit([s EXCEPT !.issueEdit.variables.issueEditBefore =
                                                    issueEdits.PageInfo.StartCursor],
                                      failAt, e)
    ELSE IF Len(s.timeline.query.Nodes) = 0 THEN Panic(s)
    ELSE LET issueEdits == s.timeline.query.Nodes[1].UserContentEdits
         IN  IF Len(issueEdits.Nodes) = 0 THEN Return(s, FALSE)
             ELSE IF s.timeline.issueEdit.index < Len(issueEdits.Nodes) - 1
             THEN nextValidIssueEdit([s EXCEPT !.timeline.issueEdit.index = @ + 1], failAt, e)
             ELSE IF ~issueEdits.PageInfo.HasPreviousPage
             THEN Return([s EXCEPT !.timeline.issueEdit.index = -1], FALSE)
             ELSE queryIssueEdit([initIssueEditQueryVariables(s)
                                     EXCEPT !.issueEdit.variables.issueEditBefore =
                                                issueEdits.PageInfo.StartCursor],
                                 failAt, e)

NextIssueEditOp(s, failAt, e) ==
    IF s.err # 0 THEN Return(s, FALSE)
    ELSE IF cancelled THEN Return(s, FALSE)
    ELSE IF s.timeline.issueEdit.index = -2
    THEN IF Len(s.issueEdit.query.Nodes) = 0 THEN Panic(s)
         ELSE LET issueEdits == s.issueEdit.query.Nodes[1].UserContentEdits
              IN  IF s.issueEdit.index < Len(issueEdits.Nodes) - 1
                  THEN nextValidIssueEdit([s EXCEPT !.issueEdit.index = @ + 1], failAt, e)
                  ELSE IF ~issueEdits.PageInfo.HasPreviousPage
                  THEN Return([s EXCEPT !.timeline.issueEdit.index = -1,
                                        !.issueEdit.index = -1], FALSE)
                  ELSE queryIssueEdit([s EXCEPT !.issueEdit.variables.issueEditBefore =
                                                    issueEdits.PageInfo.StartCursor],
                                      failAt, e)
    ELSE IF Len(s.timeline.query.Nodes) = 0 THEN Panic(s)
    ELSE LET issueEdits == s.timeline.query.Nodes[1].UserContentEdits
         IN  IF Len(issueEdits.Nodes) = 0 THEN Return(s, FALSE)
             ELSE IF s.timeline.issueEdit.index < Len(issueEdits.Nodes) - 1
             THEN nextValidIssueEdit([s EXCEPT !.timeline.issueEdit.index = @ + 1], failAt, e)
             ELSE IF ~issueEdits.PageInfo.HasPreviousPage
             THEN Return([s EXCEPT !.timeline.issueEdit.index = -1], FALSE)
             ELSE queryIssueEdit([initIssueEditQueryVariables(s)
                                     EXCEPT !.issueEdit.variables.issueEditBefore =
                                                issueEdits.PageInfo.StartCursor],
                                 failAt, e)

\* ---------------------------------------------------------- comment edits
\* the fallback page of commentEdit.query can be read
CommentEditQueryLoaded(s) ==
    /\ Len(s.commentEdit.query.Nodes) > 0
    /\ Len(s.commentEdit.query.Nodes[1].Timeline.Nodes) > 0

\* the timeline edge at timeline.index can be read
TimelineItemInRange(s) ==
    /\ Len(s.timeline.query.Nodes) > 0
    /\ s.timeline.index >= 0
    /\ s.timeline.index < Len(s.timeline.query.Nodes[1].TimelineItems.Edges)

TimelineItemValue(s) ==
    s.timeline.query.Nodes[1].TimelineItems.Edges[s.timeline.index + 1].Node

CommentEditInRange(s) ==
    IF s.timeline.commentEdit.index = -2
    THEN /\ CommentEditQueryLoaded(s)
         /\ s.commentEdit.index >= 0
         /\ s.commentEdit.index <
               Len(s.commentEdit.query.Nodes[1].Timeline.Nodes[1].UserContentEdits.Nodes)
    ELSE /\ TimelineItemInRange(s)
         /\ s.timeline.commentEdit.index >= 0
         /\ s.timeline.commentEdit.index < Len(TimelineItemValue(s).UserContentEdits.Nodes)

CommentEditValue(s) ==
    IF s.timeline.commentEdit.index = -2
    THEN s.commentEdit.query.Nodes[1].Timeline.Nodes[1].UserContentEdits.Nodes[s.commentEdit.index + 1]
    ELSE TimelineItemValue(s).UserContentEdits.Nodes[s.timeline.commentEdit.index + 1]

RECURSIVE NextCommentEditOp(_, _, _)
RECURSIVE queryCommentEdit(_, _, _)
RECURSIVE nextValidCommentEdit(_, _, _)

\* nextValidCommentEdit skipping every edit, whatever its diff
nextValidCommentEdit_SkipAll(s, failAt, e) ==
    IF ~CommentEditInRange(s) THEN Panic(s)
    ELSE NextCommentEditOp(s, failAt, e)

nextValidCommentEdit(s, failAt, e) ==
    IF ~CommentEditInRange(s) THEN Panic(s)
    ELSE IF CommentEditValue(s).Diff = "nil" \/ CommentEditValue(s).Diff = "empty"
    THEN NextCommentEditOp(s, failAt, e)
    ELSE Return(s, TRUE)

queryCommentEdit(s, failAt, e) ==
    LET o == QueryOutcome(s, failAt, e)
        s1 == Sent(s, "commentEdit", s.commentEdit.variables)
    IN  IF o # 0 THEN Return([s1 EXCEPT !.err = o], FALSE)
        ELSE LET s2 == [s1 EXCEPT !.commentEdit.query =
                                      CommentEditQueryResult(s.commentEdit.variables)]
             IN  IF ~CommentEditQueryLoaded(s2) THEN Panic(s2)
                 ELSE IF Len(s2.commentEdit.query.Nodes[1].Timeline.Nodes[1].UserContentEdits.Nodes) = 0
                 THEN Return([s2 EXCEPT !.timeline.commentEdit.index = -1], FALSE)
                 ELSE nextValidCommentEdit(
                          [s2 EXCEPT !.commentEdit.query.Nodes[1].Timeline.Nodes[1].UserContentEdits =
                                         reverseEdits(@),
                                     !.commentEdit.index = 0,
                                     !.timeline.commentEdit.index = -2],
                          failAt, e)

NextCommentEditOp(s, failAt, e) ==
    IF s.err # 0 THEN Return(s, FALSE)
    ELSE IF cancelled THEN Return(s, FALSE)
    ELSE IF s.timeline.commentEdit.index = -2
    THEN IF ~CommentEditQueryLoaded(s) THEN Panic(s)
         ELSE LET commentEdits == s.commentEdit.query.Nodes[1].Timeline.Nodes[1].UserContentEdits
              IN  IF s.commentEdit.index < Len(commentEdits.Nodes) - 1
                  THEN nextValidCommentEdit([s EXCEPT !.commentEdit.index = @ + 1], failAt, e)
                  ELSE IF ~commentEdits.PageInfo.HasPreviousPage
                  THEN Return([s EXCEPT !.timeline.commentEdit.index = -1,
                                        !.commentEdit.index = -1], FALSE)
                  ELSE queryCommentEdit([s EXCEPT !.commentEdit.variables.commentEditBefore =
                                                      commentEdits.PageInfo.StartCursor],
                                        failAt, e)
    ELSE IF ~TimelineItemInRange(s) THEN Panic(s)
    ELSE LET commentEdits == TimelineItemValue(s)
         IN  IF Len(commentEdits.UserContentEdits.Nodes) = 0 THEN Return(s, FALSE)
             ELSE IF s.timeline.commentEdit.index < Len(commentEdits.UserContentEdits.Nodes) - 1
             THEN nextValidCommentEdit([s EXCEPT !.timeline.commentEdit.index = @ + 1],
                                       failAt, e)
             ELSE IF ~commentEdits.UserContentEdits.PageInfo.HasPreviousPage
             THEN Return([s EXCEPT !.timeline.commentEdit.index = -1], FALSE)
             ELSE LET s1 == initCommentEditQueryVariables(s)
                      after == IF s.timeline.index = 0 THEN s.timeline.lastEndCursor
                               ELSE s.timeline.query.Nodes[1].TimelineItems.Edges[s.timeline.index].Cursor
                  IN  queryCommentEdit(
                          [s1 EXCEPT !.commentEdit.variables.timelineAfter = after,
                                     !.commentEdit.variables.commentEditBefore =
                                         commentEdits.UserContentEdits.PageInfo.StartCursor],
                          failAt, e)


\* ------------------------------------------------------- remote data sets
\* An edit history is given by which of its edits (newest first) carry a
\* usable diff; the unusable ones alternate between an absent and an empty diff.
Validity == UNION {[1..k -> BOOLEAN] : k \in 0..MaxEdits}
HistOf(v) == [p \in 1..Len(v) |->
                IF v[p] THEN "text" ELSE IF p % 2 = 1 THEN "nil" ELSE "empty"]
Hist == {HistOf(v) : v \in Validity}
FixedHist == <<"text", "text">>

\* the shape of a parent: its edit list, and for an issue its timeline
Comment(h) == [comment |-> TRUE, edits |-> h]
Other == [comment |-> FALSE, edits |-> <<>>]
Shape(h, items) == [edits |-> h, items |-> items]

World(cap, shapes) == [cap |-> cap, issues |-> shapes]

\* up to MaxIssues issues without edits, each with the same number of events
IssueWorlds ==
    UNION {{World(c, [k \in 1..n |-> Shape(<<>>, [j \in 1..m |-> Other])])
              : c \in 1..MaxCap, m \in 0..MaxItems}
           : n \in 0..MaxIssues}

\* two issues with timelines of different lengths, the second one edited
TimelineWorlds ==
    {World(c, <<Shape(<<>>, [j \in 1..k |-> Other]),
                Shape(FixedHist, [j \in 1..m |-> Other])>>)
        : c \in 1..MaxCap, k \in 0..MaxItems, m \in 0..MaxItems}

\* two issues with the same edit history h
IssueEditWorlds ==
    {World(c, [k \in 1..2 |-> Shape(h, <<>>)]) : c \in 1..MaxCap, h \in Hist}

\* two issues, each with an event and a comment of edit history h
CommentEditWorlds ==
    {World(c, [k \in 1..2 |-> Shape(<<>>, <<Other, Comment(h)>>)])
        : c \in 1..MaxCap, h \in Hist}

Worlds == IssueWorlds \cup TimelineWorlds \cup IssueEditWorlds \cup CommentEditWorlds

EmptyLog(fresh) == [edits |-> <<>>, done |-> FALSE, fresh |-> fresh]

\* ------------------------------------------------------------ NewIterator
NewIterator(w) ==
    /\ remote = [issues |-> w.issues]
    /\ capacity = w.cap
    /\ cancelled = FALSE
    /\ err = 0
    /\ timeline = [index |-> -1, issueEdit |-> [index |-> -1],
                   commentEdit |-> [index |-> -1], query |-> ZeroQuery,
                   variables |-> initTimelineQueryVariables(w.cap),
                   lastEndCursor |-> EmptyCursor]
    /\ issueEdit = [index |-> -1, query |-> ZeroQuery,
                    variables |-> [owner |-> Owner, name |-> Project, issueFirst |-> 0,
                                   issueAfter |-> UnsetCursor, issueSince |-> "unset",
                                   issueEditLast |-> 0, issueEditBefore |-> UnsetCursor]]
    /\ commentEdit = [index |-> -1, query |-> ZeroQuery,
                      variables |-> [owner |-> Owner, name |-> Project, issueFirst |-> 0,
                                     issueAfter |-> UnsetCursor, issueSince |-> "unset",
                                     timelineFirst |-> 0, timelineAfter |-> UnsetCursor,
                                     commentEditLast |-> 0,
                                     commentEditBefore |-> UnsetCursor]]
    /\ panicked = FALSE
    /\ last = [op |-> "NewIterator", ret |-> FALSE, reqs |-> <<>>, failed |-> 0,
               drained |-> FALSE]
    /\ firstErr = 0
    /\ issueLog = <<>>
    /\ issueEditLog = EmptyLog(TRUE)
    /\ commentEditLog = EmptyLog(TRUE)

Init == \E w \in Worlds : NewIterator(w)

\* ----------------------------------------------------------------- actions
\* the choices of the query executor for one call: no failure, or the
\* failAt-th query of the call fails with error e
MaxChain == MaxEdits + 1
FailChoices == {<<0, 1>>} \cup ((1..MaxChain) \X Errors)

\* only a query that the call sends can fail: r0 is the call without failure
CanFail(r0, f) == f[1] <= Len(r0.reqs)

\* the error of the first query of the call that failed, 0 if none did
FailureOf(r, failAt, e) ==
    IF Len(r.reqs) = 0 THEN 0
    ELSE IF cancelled THEN ErrCanceled
    ELSE IF failAt >= 1 /\ failAt <= Len(r.reqs) THEN e ELSE 0

\* what every call does to the state: a panic ends the program; otherwise the
\* iterator's fields are those the call left
Commit(r, op, failAt, e, drained) ==
    /\ panicked' = r.panic
    /\ last' = [op |-> op, ret |-> r.ret, reqs |-> r.reqs,
                failed |-> FailureOf(r, failAt, e), drained |-> drained]
    /\ firstErr' = IF firstErr = 0 THEN FailureOf(r, failAt, e) ELSE firstErr
    /\ IF r.panic
       THEN UNCHANGED <<err, timeline, issueEdit, commentEdit>>
       ELSE /\ err' = r.err
            /\ timeline' = r.timeline
            /\ issueEdit' = r.issueEdit
            /\ commentEdit' = r.commentEdit
    /\ UNCHANGED <<remote, capacity, cancelled>>

\* The log of an edit axis for its current parent: the edits surfaced until
\* the axis first reports exhaustion, and whether the axis was at NotStarted
\* (index -1) when the parent became current.
Logged(log, r, value) ==
    IF r.panic \/ log.done THEN log
    ELSE IF r.ret THEN [log EXCEPT !.edits = Append(@, value)]
    ELSE IF r.err = 0 /\ ~cancelled THEN [log EXCEPT !.done = TRUE]
    ELSE log

NextIssue ==
    /\ ~panicked
    /\ \E f \in {g \in FailChoices : CanFail(NextIssueOp(Iter, 0, 1), g)} :
         LET r == NextIssueOp(Iter, f[1], f[2])
         IN  /\ Commit(r, "NextIssue", f[1], f[2], FALSE)
             /\ IF r.ret /\ ~r.panic
                THEN /\ issueLog' = Append(issueLog, r.timeline.query.Nodes[1].id)
                     /\ issueEditLog' = EmptyLog(r.timeline.issueEdit.index = -1)
                     /\ commentEditLog' = EmptyLog(r.timeline.commentEdit.index = -1)
                ELSE UNCHANGED <<issueLog, issueEditLog, commentEditLog>>

NextTimelineItem ==
    /\ ~panicked
    /\ \E f \in {g \in FailChoices : CanFail(NextTimelineItemOp(Iter, 0, 1), g)} :
         LET r == NextTimelineItemOp(Iter, f[1], f[2])
         IN  /\ Commit(r, "NextTimelineItem", f[1], f[2], FALSE)
             /\ commentEditLog' = IF r.ret /\ ~r.panic
                                   THEN EmptyLog(r.timeline.commentEdit.index = -1)
                                   ELSE commentEditLog
             /\ UNCHANGED <<issueLog, issueEditLog>>

NextIssueEdit ==
    /\ ~panicked
    /\ \E f \in {g \in FailChoices : CanFail(NextIssueEditOp(Iter, 0, 1), g)} :
         LET r == NextIssueEditOp(Iter, f[1], f[2])
             log == Logged(issueEditLog, r, IssueEditValue(r))
         IN  /\ Commit(r, "NextIssueEdit", f[1], f[2], log.done /\ ~issueEditLog.done)
             /\ issueEditLog' = log
             /\ UNCHANGED <<issueLog, commentEditLog>>

NextCommentEdit ==
    /\ ~panicked
    /\ \E f \in {g \in FailChoices : CanFail(NextCommentEditOp(Iter, 0, 1), g)} :
         LET r == NextCommentEditOp(Iter, f[1], f[2])
             log == Logged(commentEditLog, r, CommentEditValue(r))
         IN  /\ Commit(r, "NextCommentEdit", f[1], f[2], log.done /\ ~commentEditLog.done)
             /\ commentEditLog' = log
             /\ UNCHANGED <<issueLog, issueEditLog>>

\* the caller cancels the shared context
Cancel ==
    /\ ~panicked
    /\ ~cancelled
    /\ cancelled' = TRUE
    /\ last' = [op |-> "Cancel", ret |-> FALSE, reqs |-> <<>>, failed |-> 0,
                drained |-> FALSE]
    /\ UNCHANGED <<remote, capacity, err, timeline, issueEdit, commentEdit, panicked,
                   firstErr, issueLog, issueEditLog, commentEditLog>>

Next == NextIssue \/ NextTimelineItem \/ NextIssueEdit \/ NextCommentEdit \/ Cancel

Spec == Init /\ [][Next]_vars

\* ------------------------------------------------------ the consumer loop
\* for NextIssue { for NextIssueEdit {}; for NextTimelineItem { for NextCommentEdit {} } }
\* The loop's position is the call it made last and what that call returned.
Returned(op, b) == ~panicked /\ last.op = op /\ last.ret = b

LoopNextIssue ==
    /\ last.op = "NewIterator" \/ Returned("NextTimelineItem", FALSE)
    /\ NextIssue

LoopNextIssueEdit ==
    /\ Returned("NextIssue", TRUE) \/ Returned("NextIssueEdit", TRUE)
    /\ NextIssueEdit

LoopNextTimelineItem ==
    /\ Returned("NextIssueEdit", FALSE) \/ Returned("NextCommentEdit", FALSE)
    /\ NextTimelineItem

LoopNextCommentEdit ==
    /\ Returned("NextTimelineItem", TRUE) \/ Returned("NextCommentEdit", TRUE)
    /\ NextCommentEdit

ConsumerNext ==
    LoopNextIssue \/ LoopNextIssueEdit \/ LoopNextTimelineItem \/ LoopNextCommentEdit

ConsumerSpec == Init /\ [][ConsumerNext]_vars


\* ================================================================== claims
AdvanceOps == {"NextIssue", "NextTimelineItem", "NextIssueEdit", "NextCommentEdit"}
Called(op) == ~panicked /\ last.op = op
NoFailure == firstErr = 0 /\ err = 0 /\ ~cancelled /\ ~panicked

\* C1: once a fetch has failed, every later advance call returns false and
\* sends no query, and Error() stays the error of the first failed fetch: it
\* is never cleared and never replaced.
C1_StickyError ==
    [][/\ firstErr' # 0 => err' = firstErr'
       /\ firstErr # 0 =>
            /\ firstErr' = firstErr
            /\ last'.op \in AdvanceOps /\ last' # last =>
                 ~last'.ret /\ last'.reqs = <<>> /\ ~panicked']_vars

\* a call made after a failed fetch has returned
C1_Witness ==
    /\ firstErr \in Errors
    /\ err = firstErr
    /\ Called("NextIssueEdit")
    /\ last.reqs = <<>>
    /\ ~last.ret
    /\ Len(issueLog) > 0

\* C2: without failure or cancellation, the issues NextIssue returns are
\* I1, I2, ..., In in that order, none twice, and when NextIssue then
\* returns false all n have been returned; every issue query is sent with the
\* end cursor of the issue page fetched last.
C2_IssuesInOrder ==
    NoFailure =>
      /\ \A k \in 1..Len(issueLog) : issueLog[k] = k
      /\ Called("NextIssue") /\ ~last.ret => Len(issueLog) = Len(remote.issues)
      /\ Called("NextIssue") /\ last.ret =>
           AfterPos(last.reqs[1].v.issueAfter) = Len(issueLog) - 1

\* C3: an edit surfaced by NextIssueEdit or NextCommentEdit has a usable diff,
\* and surfacing it sets no error.
C3_NoEmptyDiffSurfaced ==
    /\ Called("NextIssueEdit") /\ last.ret =>
         /\ IssueEditInRange(Iter)
         /\ IssueEditValue(Iter).Diff = "text"
         /\ err = 0
    /\ Called("NextCommentEdit") /\ last.ret =>
         /\ CommentEditInRange(Iter)
         /\ CommentEditValue(Iter).Diff = "text"
         /\ err = 0

\* a comment edit was surfaced by a call that skipped a whole fallback page
\* without usable diff, after an embedded list holding such an edit too
C3_Witness ==
    /\ Called("NextCommentEdit")
    /\ last.ret
    /\ timeline.commentEdit.index = -2
    /\ Len(last.reqs) = 2
    /\ \E x \in 1..Len(TimelineItemValue(Iter).UserContentEdits.Nodes) :
          TimelineItemValue(Iter).UserContentEdits.Nodes[x].Diff \in {"nil", "empty"}


\* the edit page the issue-edit axis / the comment-edit axis reads
IssueEditPage ==
    IF timeline.issueEdit.index = -2 THEN issueEdit.query.Nodes[1].UserContentEdits
    ELSE timeline.query.Nodes[1].UserContentEdits
CommentEditPage ==
    IF timeline.commentEdit.index = -2
    THEN commentEdit.query.Nodes[1].Timeline.Nodes[1].UserContentEdits
    ELSE TimelineItemValue(Iter).UserContentEdits
ReversedOnce(page) ==
    /\ page.Nodes = Reverse(page.raw)
    /\ Len(page.raw) > 1 => page.nrev = 1

\* C4: an edit is only ever surfaced from a page that has been reversed
\* exactly once since it was fetched, so a page served as [E3,E2,E1] is
\* surfaced as E1, E2, E3.
C4_ReversedOnce ==
    /\ Called("NextIssueEdit") /\ last.ret => ReversedOnce(IssueEditPage)
    /\ Called("NextCommentEdit") /\ last.ret => ReversedOnce(CommentEditPage)


\* the issue-edit axis has been drained from NotStarted over an embedded
\* page the issue query delivered (no timeline item has been taken since)
\* that holds the issue's whole history [E3(nil diff), E2, E1]
C5_Page ==
    /\ NoFailure
    /\ Called("NextIssueEdit")
    /\ last.drained
    /\ issueEditLog.fresh
    /\ timeline.index = -1
    /\ Len(timeline.query.Nodes) > 0
    /\ ~IssueEditPage.PageInfo.HasPreviousPage
    /\ [x \in 1..Len(IssueEditPage.raw) |-> IssueEditPage.raw[x].Diff] = <<"nil", "text", "text">>

AllEdits(n, j) ==
    LET h == IF j = 0 THEN remote.issues[n].edits ELSE remote.issues[n].items[j].edits
    IN  [p \in 1..Len(h) |-> userContentEdit(n, j, p, EditTime(p), h[p])]
HasDiff(edit) == edit.Diff = "text"
Surfaceable(n, j) == SelectSeq(Reverse(AllEdits(n, j)), HasDiff)
Chronological(edits) ==
    \A k \in 1..(Len(edits) - 1) : edits[k].CreatedAt <= edits[k + 1].CreatedAt
CurrentIssue == issueLog[Len(issueLog)]

\* C6: the edits surfaced while one edit axis is drained for one parent, from
\* NotStarted on, never go back in time, whatever pages they came from.
C6_Chronological ==
    /\ issueEditLog.fresh => Chronological(issueEditLog.edits)
    /\ commentEditLog.fresh => Chronological(commentEditLog.edits)

\* C7: without failure, an edit axis drained from NotStarted has surfaced
\* what a single page holding the parent's whole history yields, however
\* the history was split into an embedded page and fallback pages.
C7_PagingInvisible ==
    /\ NoFailure /\ Called("NextIssueEdit") /\ last.drained /\ issueEditLog.fresh =>
         issueEditLog.edits = Surfaceable(CurrentIssue, 0)
    /\ NoFailure /\ Called("NextCommentEdit") /\ last.drained /\ commentEditLog.fresh
         /\ TimelineItemInRange(Iter) =>
         commentEditLog.edits =
             Surfaceable(TimelineItemValue(Iter).issue, TimelineItemValue(Iter).item)

\* C8: an advance operation called under a cancelled context returns false
\* and sends no query.
C8_CancelledNoFetch ==
    cancelled /\ last.op \in AdvanceOps => ~last.ret /\ last.reqs = <<>>

\* C9 as stated: a call of an advance operation sends at most one query.
C9_AtMostOneFetch ==
    last.op \in AdvanceOps => Len(last.reqs) <= 1

\* the edits of the page the remote answers a fallback request with
FetchedEdits(req) ==
    IF req.q = "issueEdit"
    THEN LET page == IssueEditQueryResult(req.v)
         IN  IF Len(page.Nodes) = 0 THEN <<>> ELSE page.Nodes[1].UserContentEdits.Nodes
    ELSE IF req.q = "commentEdit"
    THEN LET page == CommentEditQueryResult(req.v)
         IN  IF Len(page.Nodes) = 0 \/ Len(page.Nodes[1].Timeline.Nodes) = 0 THEN <<>>
             ELSE page.Nodes[1].Timeline.Nodes[1].UserContentEdits.Nodes
    ELSE <<>>

\* C9 as the code has it: NextIssue and NextTimelineItem send at most one
\* query; NextIssueEdit and NextCommentEdit send a further query only after a
\* fallback page that holds edits none of which has a usable diff.
C9_FetchPerSkippedPage ==
    /\ last.op \in {"NextIssue", "NextTimelineItem"} => Len(last.reqs) <= 1
    /\ last.op \in {"NextIssueEdit", "NextCommentEdit"} =>
         \A k \in 1..(Len(last.reqs) - 1) :
            /\ last.reqs[k].q = (IF last.op = "NextIssueEdit" THEN "issueEdit" ELSE "commentEdit")
            /\ Len(FetchedEdits(last.reqs[k])) > 0
            /\ \A x \in 1..Len(FetchedEdits(last.reqs[k])) :
                  ~HasDiff(FetchedEdits(last.reqs[k])[x])

C9_Witness ==
    /\ NoFailure
    /\ Called("NextIssueEdit")
    /\ Len(last.reqs) = 2
    /\ last.ret

\* a step in which a query of an advance operation fails
FetchFails == err = 0 /\ err' # 0

\* C10 as stated: a call whose query fails leaves every request variable,
\* lastEndCursor and every index as they were before the call.
C10_NothingWritten ==
    [][FetchFails =>
         /\ timeline'.variables = timeline.variables
         /\ issueEdit'.variables = issueEdit.variables
         /\ commentEdit'.variables = commentEdit.variables
         /\ timeline'.lastEndCursor = timeline.lastEndCursor
         /\ timeline'.index = timeline.index
         /\ timeline'.issueEdit = timeline.issueEdit
         /\ timeline'.commentEdit = timeline.commentEdit
         /\ issueEdit'.index = issueEdit.index
         /\ commentEdit'.index = commentEdit.index]_vars

\* C10 as the code has it: a call whose only query fails keeps the pages
\* held, leaves each edit axis in the phase (embedded or fallback) it was in
\* and, except in NextIssue, keeps the timeline index; the request variables
\* and lastEndCursor written before the query are not restored, and an edit
\* index may have advanced over edits without a usable diff.
C10_PagesAndPhaseKept ==
    [][FetchFails /\ Len(last'.reqs) = 1 =>
         /\ timeline'.query = timeline.query
         /\ issueEdit'.query = issueEdit.query
         /\ commentEdit'.query = commentEdit.query
         /\ (timeline'.issueEdit.index = -2) = (timeline.issueEdit.index = -2)
         /\ (timeline'.commentEdit.index = -2) = (timeline.commentEdit.index = -2)
         /\ last'.op # "NextIssue" => timeline'.index = timeline.index]_vars

\* the fallback query of NextIssueEdit has failed: the request variables of
\* the issue-edit axis are written, its phase is still the embedded one
C10_Witness ==
    /\ Called("NextIssueEdit")
    /\ last.failed \in Errors
    /\ Len(last.reqs) = 1
    /\ issueEdit.variables.issueEditBefore # UnsetCursor
    /\ timeline.issueEdit.index >= 0

\* the issue a request selects through issueFirst / issueAfter
SelectedIssue(v) == IssueRange(v.issueFirst, v.issueAfter).s

\* the timeline item read after the step, and the one read before it
ItemAfterStep == TimelineItemValue([timeline |-> timeline'])
ItemBeforeStep == TimelineItemValue([timeline |-> timeline])

\* a call of op that returns in this step, no failure having occurred
Returns(op) ==
    /\ ~panicked
    /\ last'.op = op
    /\ ~panicked'
    /\ firstErr' = 0
    /\ ~cancelled
    /\ Len(issueLog) > 0

\* C11: for the issue NextIssue returned last, NextTimelineItem surfaces its
\* items one by one in remote order and returns false only after the last
\* one; a continuation query selects that issue, with timelineAfter the end
\* cursor of the page just consumed.
C11_TimelineOfCurrentIssue ==
    [][Returns("NextTimelineItem") =>
         /\ last'.ret =>
              /\ ItemAfterStep.issue = CurrentIssue
              /\ ItemAfterStep.item = IF timeline.index = -1 THEN 1 ELSE ItemBeforeStep.item + 1
         /\ ~last'.ret =>
              Len(remote.issues[CurrentIssue].items) =
                  IF timeline.index = -1 THEN 0 ELSE ItemBeforeStep.item
         /\ \A k \in 1..Len(last'.reqs) :
              /\ SelectedIssue(last'.reqs[k].v) = CurrentIssue
              /\ last'.reqs[k].v.timelineAfter =
                   timeline.query.Nodes[1].TimelineItems.PageInfo.EndCursor]_vars

\* the timeline item a request selects through timelineFirst / timelineAfter
SelectedItem(v) == AfterPos(v.timelineAfter) + 1

\* C12: the query by which NextCommentEdit leaves the embedded list selects
\* the current comment: the issue NextIssue returned last, and in it the
\* item read, by the cursor of the item before it in the same issue, or by no
\* cursor for the issue's first item.
C12_CommentFallbackScoped ==
    [][/\ Returns("NextCommentEdit")
       /\ timeline.commentEdit.index # -2
       /\ Len(last'.reqs) > 0
       =>
       LET v == last'.reqs[1].v
       IN  /\ SelectedIssue(v) = CurrentIssue
           /\ ItemBeforeStep.issue = CurrentIssue
           /\ SelectedItem(v) = ItemBeforeStep.item
           /\ v.timelineAfter = IF ItemBeforeStep.item = 1 THEN v.timelineAfter
                                ELSE ItemCursor(CurrentIssue, ItemBeforeStep.item - 1)
           /\ ItemBeforeStep.item = 1 => v.timelineAfter \in {NilCursor, EmptyCursor}]_vars

IssueValue(s) == s.timeline.query.Nodes[1]

\* C13: the query by which NextIssueEdit leaves the embedded list selects,
\* through the issueAfter it copies, the issue IssueValue returns.
C13_IssueFallbackScoped ==
    [][/\ Returns("NextIssueEdit")
       /\ timeline.issueEdit.index # -2
       /\ Len(last'.reqs) > 0
       =>
       SelectedIssue(last'.reqs[1].v) = IssueValue(Iter).id]_vars

\* the embedded edit lists as held, and the drains completed for the
\* current parent from NotStarted
EmbeddedIssueEdits == timeline.query.Nodes[1].UserContentEdits.Nodes
EmbeddedCommentEdits == TimelineItemValue(Iter).UserContentEdits.Nodes
IssueEditsDrained == issueEditLog.done /\ issueEditLog.fresh
CommentEditsDrained == commentEditLog.done /\ commentEditLog.fresh

IssuesExhausted ==
    /\ timeline.variables.issueAfter # NilCursor
    /\ ~timeline.query.PageInfo.HasNextPage
TimelineExhausted ==
    /\ Len(timeline.query.Nodes) > 0
    /\ LET timelineItems == timeline.query.Nodes[1].TimelineItems
       IN  /\ Len(timelineItems.Edges) > 0
           /\ timeline.index >= Len(timelineItems.Edges) - 1
           /\ ~timelineItems.PageInfo.HasNextPage

\* C15: once the issue axis is exhausted it stays so, and NextIssue returns
\* false without a query; once the timeline axis is exhausted it stays so
\* until NextIssue returns an issue, and NextTimelineItem returns false
\* without a query and without moving the timeline index.
C15_ExhaustionFinal ==
    [][/\ IssuesExhausted =>
            /\ IssuesExhausted'
            /\ last'.op = "NextIssue" => ~last'.ret /\ last'.reqs = <<>> /\ ~panicked'
       /\ TimelineExhausted /\ ~(last'.op = "NextIssue" /\ last'.reqs # <<>>) =>
            /\ TimelineExhausted'
            /\ timeline'.index = timeline.index
            /\ last'.op = "NextTimelineItem" =>
                 ~last'.ret /\ last'.reqs = <<>> /\ ~panicked']_vars

\* both axes are exhausted and NextIssue has said so
C15_Witness ==
    /\ NoFailure
    /\ Called("NextIssue")
    /\ ~last.ret
    /\ last.reqs = <<>>
    /\ Len(issueLog) > 1
    /\ IssuesExhausted
    /\ TimelineExhausted
    /\ timeline.index >= 1

\* the iterator holding, for the issue it holds, a timeline page without
\* items whose has-next-page flag is b
WithEmptyTimeline(b) ==
    [Iter EXCEPT !.timeline.query.Nodes[1].TimelineItems =
                     [Edges |-> <<>>,
                      PageInfo |-> pageInfo(EmptyCursor, b, EmptyCursor, FALSE)]]

\* C16: on a timeline page without items NextTimelineItem returns false and
\* sends no query, and it would do so as well if the page said that a next
\* page exists.
C16_EmptyTimeline ==
    [][/\ Returns("NextTimelineItem") /\ Len(timeline.query.Nodes) > 0
            /\ timeline.query.Nodes[1].TimelineItems.Edges = <<>> =>
            ~last'.ret /\ last'.reqs = <<>> /\ timeline' = timeline
       /\ Len(timeline.query.Nodes) > 0 /\ err = 0 =>
            \A b \in BOOLEAN :
               NextTimelineItemOp(WithEmptyTimeline(b), 1, 1) = WithEmptyTimeline(b)]_vars

\* the first NextTimelineItem for an issue without events has returned
C16_Witness ==
    /\ NoFailure
    /\ Called("NextTimelineItem")
    /\ ~last.ret
    /\ last.reqs = <<>>
    /\ timeline.index = -1
    /\ Len(timeline.query.Nodes) > 0
    /\ timeline.query.Nodes[1].TimelineItems.Edges = <<>>
    /\ Len(remote.issues[IssueValue(Iter).id].items) = 0

\* the remote answers the request with an empty page: no issue, or, to a
\* timeline continuation, no timeline item, or, to a fallback query, no edit
EmptyAnswer(op, req) ==
    IF req.q = "timeline"
    THEN LET page == TimelineQueryResult(req.v)
         IN  \/ page.Nodes = <<>>
             \/ op = "NextTimelineItem" /\ page.Nodes[1].TimelineItems.Edges = <<>>
    ELSE FetchedEdits(req) = <<>>

\* a successful issue query has returned no issue
ZeroIssuesFetched ==
    /\ firstErr = 0
    /\ timeline.variables.issueAfter # NilCursor
    /\ timeline.query.Nodes = <<>>

\* C17: an advance call whose query is answered with an empty page returns
\* false and sets no error, and neither that call nor a later advance call
\* reads outside the empty page.
C17_EmptyPageIsExhaustion ==
    /\ last.op \in AdvanceOps /\ firstErr = 0 /\ ~cancelled /\ last.reqs # <<>>
         /\ EmptyAnswer(last.op, last.reqs[Len(last.reqs)]) =>
         ~panicked /\ ~last.ret /\ err = 0
    /\ ZeroIssuesFetched /\ ~cancelled => ~panicked

\* C18: when NextIssue returns true the timeline index is -1 and the request
\* variable timelineAfter is nil, and the NextTimelineItem that follows
\* surfaces, without a query, the first timeline item of the issue returned
\* (or returns false if the issue has none).
C18_TimelineReset ==
    [][/\ last'.op = "NextIssue" /\ last'.ret /\ ~panicked' =>
            /\ timeline'.index = -1
            /\ timeline'.variables.timelineAfter = NilCursor
       /\ Called("NextIssue") /\ last.ret /\ Returns("NextTimelineItem") =>
            /\ last'.reqs = <<>>
            /\ last'.ret = (Len(remote.issues[IssueValue(Iter).id].items) > 0)
            /\ last'.ret =>
                 /\ ItemAfterStep.issue = IssueValue(Iter).id
                 /\ ItemAfterStep.item = 1]_vars

\* the first event of a second issue is surfaced after events of the first
\* issue were
C18_Witness ==
    /\ NoFailure
    /\ Called("NextTimelineItem")
    /\ last.ret
    /\ Len(issueLog) = 2
    /\ timeline.index = 0
    /\ timeline.lastEndCursor.k = "item"
    /\ TimelineItemValue(Iter).issue = 2
    /\ TimelineItemValue(Iter).item = 1

\* no edit of the list after Go index idx has a usable diff: a call that
\* starts there runs to the end of the list
RestUnusable(edits, idx) ==
    /\ Len(edits) > 0
    /\ \A x \in 1..Len(edits) : x > idx + 1 => ~HasDiff(edits[x])

\* a call of op that starts in this step with no error set and no cancellation
Starts(op) == ~panicked /\ last'.op = op /\ err = 0 /\ ~cancelled

\* C19: a call that runs to the end of the embedded edit list sends, if the
\* list has a previous page, the fallback query with the list's start
\* cursor as backward cursor, and an edit it then surfaces is read in the
\* fallback phase (-2); if there is no previous page it returns false, sends
\* no query and leaves the axis at NotStarted (-1).
C19_EmbeddedToFallback ==
    [][/\ Starts("NextIssueEdit") /\ timeline.issueEdit.index # -2
            /\ Len(timeline.query.Nodes) > 0
            /\ RestUnusable(EmbeddedIssueEdits, timeline.issueEdit.index) =>
            LET info == timeline.query.Nodes[1].UserContentEdits.PageInfo
            IN  IF info.HasPreviousPage
                THEN /\ last'.reqs # <<>>
                     /\ last'.reqs[1].q = "issueEdit"
                     /\ last'.reqs[1].v.issueEditBefore = info.StartCursor
                     /\ last'.ret => timeline'.issueEdit.index = -2
                     /\ ~panicked' => timeline'.issueEdit.index \in {-2, -1}
                          \/ err' # 0
                ELSE /\ ~last'.ret
                     /\ last'.reqs = <<>>
                     /\ timeline'.issueEdit.index = -1
       /\ Starts("NextCommentEdit") /\ timeline.commentEdit.index # -2
            /\ TimelineItemInRange(Iter)
            /\ RestUnusable(EmbeddedCommentEdits, timeline.commentEdit.index) =>
            LET info == TimelineItemValue(Iter).UserContentEdits.PageInfo
            IN  IF info.HasPreviousPage
                THEN /\ last'.reqs # <<>>
                     /\ last'.reqs[1].q = "commentEdit"
                     /\ last'.reqs[1].v.commentEditBefore = info.StartCursor
                     /\ last'.ret => timeline'.commentEdit.index = -2
                     /\ ~panicked' => timeline'.commentEdit.index \in {-2, -1}
                          \/ err' # 0
                ELSE /\ ~last'.ret
                     /\ last'.reqs = <<>>
                     /\ timeline'.commentEdit.index = -1]_vars

\* the first edit of a fallback page has been surfaced by the call that left
\* the embedded list
C19_Witness ==
    /\ NoFailure
    /\ Called("NextIssueEdit")
    /\ last.ret
    /\ Len(last.reqs) = 1
    /\ timeline.issueEdit.index = -2
    /\ issueEdit.index = 0
    /\ last.reqs[1].v.issueEditBefore =
         timeline.query.Nodes[1].UserContentEdits.PageInfo.StartCursor

\* the fallback pages held, and the page info of the page answering a
\* fallback request
FallbackIssueEdits == issueEdit.query.Nodes[1].UserContentEdits
FallbackCommentEdits == commentEdit.query.Nodes[1].Timeline.Nodes[1].UserContentEdits
AnswerInfo(req) ==
    IF req.q = "issueEdit"
    THEN IssueEditQueryResult(req.v).Nodes[1].UserContentEdits.PageInfo
    ELSE CommentEditQueryResult(req.v).Nodes[1].Timeline.Nodes[1].UserContentEdits.PageInfo
Before(req) == IF req.q = "issueEdit" THEN req.v.issueEditBefore ELSE req.v.commentEditBefore

\* within one call, each further fallback query is anchored at the start
\* cursor of the page the query before it fetched, which lies further back
ChainedBackward(reqs) ==
    \A k \in 1..(Len(reqs) - 1) :
       /\ Before(reqs[k + 1]) = AnswerInfo(reqs[k]).StartCursor
       /\ Before(reqs[k + 1]).pos < Before(reqs[k]).pos

\* C20: a call that runs to the end of the fallback page held sends, if that
\* page has a previous page, a query anchored at the page's start cursor,
\* which lies further back than the cursor the page was fetched with, and so
\* does every further query of the call; if there is no previous page the
\* call returns false without a query and sets phase and fallback index to -1.
C20_FallbackBackward ==
    [][/\ Starts("NextIssueEdit") /\ timeline.issueEdit.index = -2
            /\ Len(issueEdit.query.Nodes) > 0
            /\ RestUnusable(FallbackIssueEdits.Nodes, issueEdit.index) =>
            IF FallbackIssueEdits.PageInfo.HasPreviousPage
            THEN /\ last'.reqs # <<>>
                 /\ last'.reqs[1].q = "issueEdit"
                 /\ Before(last'.reqs[1]) = FallbackIssueEdits.PageInfo.StartCursor
                 /\ Before(last'.reqs[1]).pos < issueEdit.variables.issueEditBefore.pos
                 /\ ChainedBackward(last'.reqs)
            ELSE /\ ~last'.ret
                 /\ last'.reqs = <<>>
                 /\ timeline'.issueEdit.index = -1
                 /\ issueEdit'.index = -1
       /\ Starts("NextCommentEdit") /\ timeline.commentEdit.index = -2
            /\ CommentEditQueryLoaded(Iter)
            /\ RestUnusable(FallbackCommentEdits.Nodes, commentEdit.index) =>
            IF FallbackCommentEdits.PageInfo.HasPreviousPage
            THEN /\ last'.reqs # <<>>
                 /\ last'.reqs[1].q = "commentEdit"
                 /\ Before(last'.reqs[1]) = FallbackCommentEdits.PageInfo.StartCursor
                 /\ Before(last'.reqs[1]).pos < commentEdit.variables.commentEditBefore.pos
                 /\ ChainedBackward(last'.reqs)
            ELSE /\ ~last'.ret
                 /\ last'.reqs = <<>>
                 /\ timeline'.commentEdit.index = -1
                 /\ commentEdit'.index = -1]_vars

\* an edit of a second fallback page has been surfaced
C20_Witness ==
    /\ NoFailure
    /\ Called("NextIssueEdit")
    /\ last.ret
    /\ Len(last.reqs) = 1
    /\ timeline.issueEdit.index = -2
    /\ Before(last.reqs[1]).k = "edit"
    /\ Before(last.reqs[1]).pos <
         timeline.query.Nodes[1].UserContentEdits.PageInfo.StartCursor.pos

\* C20 as stated: no fallback page of one issue is fetched twice, that is, a
\* call following another call on the same axis never opens with the very
\* query that fetched the fallback page held.
C20_NoPageFetchedTwice ==
    [][/\ Called("NextIssueEdit") /\ Starts("NextIssueEdit") /\ last'.reqs # <<>>
            /\ Len(issueEdit.query.Nodes) > 0 /\ FallbackIssueEdits.Nodes # <<>> =>
            last'.reqs[1].v # issueEdit.variables
       /\ Called("NextCommentEdit") /\ Starts("NextCommentEdit") /\ last'.reqs # <<>>
            /\ CommentEditQueryLoaded(Iter) /\ FallbackCommentEdits.Nodes # <<>> =>
            last'.reqs[1].v # commentEdit.variables]_vars

\* the consumer loop has ended: NextIssue has returned false
Stopped == Returned("NextIssue", FALSE)

\* the loop has a call to make: the program is running and the loop not ended
LoopHasCall == ~panicked /\ ~Stopped

\* C21: the consumer loop ends with NextIssue returning false, whether or not
\* a fetch fails: in every state of the loop either the loop has a further
\* call to make or NextIssue has returned false.
C21_LoopReachesEnd == LoopHasCall \/ Stopped

\* every run of the consumer loop takes finitely many steps
C21_LoopFinite == <>[][FALSE]_vars

\* the query is an issue query without a cursor
CursorLess(req) == req.v.issueAfter = NilCursor

\* C22: a query without issue cursor is sent only by a NextIssue that finds
\* issueAfter nil, as its only query; after any NextIssue call issueAfter is
\* not nil, whatever the call's outcome, and it never becomes nil again.
C22_FirstQueryOnce ==
    [][/\ last'.op = "NextIssue" /\ ~panicked' => timeline'.variables.issueAfter # NilCursor
       /\ timeline.variables.issueAfter # NilCursor =>
            timeline'.variables.issueAfter # NilCursor
       /\ \A k \in DOMAIN last'.reqs :
            CursorLess(last'.reqs[k]) =>
               /\ last'.op = "NextIssue"
               /\ Len(last'.reqs) = 1
               /\ timeline.variables.issueAfter = NilCursor
               /\ issueLog = <<>>]_vars

\* NextIssue has been called again after a first call that was answered with
\* an empty page, and has sent nothing
C22_Witness ==
    /\ NoFailure
    /\ Called("NextIssue")
    /\ ~last.ret
    /\ last.reqs = <<>>
    /\ issueLog = <<>>
    /\ timeline.variables.issueAfter = EmptyCursor

\* a single call sends at most one query per page of edits
C21_BoundedFetches == Len(last.reqs) <= MaxEdits

\* C23: whenever an advance operation has just returned true, the matching
\* value accessor reads inside the loaded page: the timeline index lies within
\* the edges, and the edit index of the phase in force (fallback when the
\* sentinel is -2, embedded otherwise) lies within that phase's page.
C23_ValueInRange ==
    /\ Returned("NextTimelineItem", TRUE) => TimelineItemInRange(Iter)
    /\ Returned("NextIssueEdit", TRUE) => IssueEditInRange(Iter)
    /\ Returned("NextCommentEdit", TRUE) => CommentEditInRange(Iter)

\* an edit of a fallback page of the comment at timeline index 1 is readable,
\* the issue's edit axis being in another phase
C23_Witness ==
    /\ NoFailure
    /\ Returned("NextCommentEdit", TRUE)
    /\ timeline.commentEdit.index = -2
    /\ timeline.index = 1
    /\ CommentEditInRange(Iter)
    /\ timeline.issueEdit.index = -1

\* the operations that test the context before anything else
CtxTestingOps == {"NextTimelineItem", "NextIssueEdit", "NextCommentEdit"}

\* C24: NextTimelineItem, NextIssueEdit and NextCommentEdit called under a
\* cancelled context with no error set return false, send no query, leave
\* Error() nil and change no request variable, cursor, page or index.
C24_CancelledFrame ==
    [][cancelled /\ err = 0 /\ ~panicked /\ last'.op \in CtxTestingOps =>
          /\ ~last'.ret
          /\ last'.reqs = <<>>
          /\ ~panicked'
          /\ err' = 0
          /\ UNCHANGED <<timeline, issueEdit, commentEdit>>]_vars

\* NextCommentEdit has been called under a cancelled context while the
\* comment's embedded list still had an edit to surface
C24_Witness ==
    /\ cancelled
    /\ err = 0
    /\ Called("NextCommentEdit")
    /\ ~last.ret
    /\ TimelineItemInRange(Iter)
    /\ timeline.commentEdit.index = 0
    /\ Len(EmbeddedCommentEdits) > 1
    /\ ~RestUnusable(EmbeddedCommentEdits, 0)

\* the list holds an edit with a usable diff, and the place of the first one
HasValid(edits) == \E x \in 1..Len(edits) : HasDiff(edits[x])
FirstValid(edits) ==
    CHOOSE x \in 1..Len(edits) : HasDiff(edits[x]) /\ \A y \in 1..(x - 1) : ~HasDiff(edits[y])

\* C25: the first NextIssueEdit after a NextIssue that returned true, and the
\* first NextCommentEdit after a NextTimelineItem that returned true on a
\* comment, surface the first usable edit of the new parent's embedded list,
\* wherever the axis stood when the parent was advanced.
C25_StartsFromBeginning ==
    [][/\ Returned("NextIssue", TRUE) /\ Starts("NextIssueEdit")
            /\ HasValid(EmbeddedIssueEdits) =>
            /\ last'.ret
            /\ timeline'.issueEdit.index = FirstValid(EmbeddedIssueEdits) - 1
       /\ Returned("NextTimelineItem", TRUE) /\ Starts("NextCommentEdit")
            /\ TimelineItemValue(Iter).Typename = "IssueComment"
            /\ HasValid(EmbeddedCommentEdits) =>
            /\ last'.ret
            /\ timeline'.commentEdit.index = FirstValid(EmbeddedCommentEdits) - 1]_vars

\* the constants of a request are those NewIterator was given
ConstantsKept(req) ==
    /\ req.v.owner = Owner
    /\ req.v.name = Project
    /\ req.v.issueSince = Since
    /\ req.v.issueFirst = 1
    /\ req.q = "timeline" =>
         /\ req.v.timelineFirst = capacity
         /\ req.v.issueEditLast = capacity
         /\ req.v.commentEditLast = capacity
    /\ req.q = "issueEdit" => req.v.issueEditLast = capacity
    /\ req.q = "commentEdit" =>
         /\ req.v.timelineFirst = 1
         /\ req.v.commentEditLast = capacity

\* C26: every query sent carries the owner, name and issueSince given to
\* NewIterator and issueFirst 1; a timeline query asks for pages of the
\* capacity on its three nested lists, a comment-edit query for one timeline item.
C26_ConstantsKept ==
    /\ \A k \in DOMAIN last.reqs : ConstantsKept(last.reqs[k])
    /\ ConstantsKept([q |-> "timeline", v |-> timeline.variables])

\* a comment-edit query has been sent under a capacity above 1
C26_Witness ==
    /\ NoFailure
    /\ capacity > 1
    /\ Returned("NextCommentEdit", TRUE)
    /\ last.reqs # <<>>
    /\ last.reqs[1].q = "commentEdit"

\* the timeline page loaded, and the cursor that ends the page before it in
\* the timeline of the same issue
LoadedTimeline == timeline.query.Nodes[1].TimelineItems
NoPrecedingPage(c) == c.k \in {"nil", "empty"}
PrecedesLoaded(c) ==
    LET first == LoadedTimeline.Edges[1].Cursor
    IN  IF first.item = 1 THEN NoPrecedingPage(c)
        ELSE c = ItemCursor(first.issue, first.item - 1)

\* C27: whenever the timeline index is 0 on a loaded page and no fetch has
\* failed, lastEndCursor is the end cursor of the page that precedes it in
\* the same issue's timeline, and stands for no page when the loaded page is
\* the issue's first.
C27_EndCursorOfCurrentIssue ==
    ~panicked /\ err = 0 /\ TimelineItemInRange(Iter) /\ timeline.index = 0 =>
        PrecedesLoaded(timeline.lastEndCursor)

\* lastEndCursor is written by NextIssue and NextTimelineItem alone
C27_WrittenByParentsOnly ==
    [][last'.op \in {"NextIssueEdit", "NextCommentEdit", "Cancel"} =>
          timeline'.lastEndCursor = timeline.lastEndCursor]_vars

====
